---- MODULE Spec2Model ----
(***************************************************************************)
(* Model of pkg/esoutput/config.go: the Config record of six optional      *)
(* fields, NewConfig, Config.Apply, ParseArg and GetConsolidatedConfig.    *)
(*                                                                         *)
(* A null.String is [String, Valid], a types.NullDuration is               *)
(* [Duration, Valid] with the duration in milliseconds.  An error value is *)
(* a string naming its origin; NoErr is Go's nil error.                    *)
(***************************************************************************)
EXTENDS Integers, Sequences, FiniteSets, TLC

VARIABLES
    pc,           \* position inside the function under analysis
    jsonRawConf,  \* GetConsolidatedConfig parameter: the raw JSON document
    env,          \* GetConsolidatedConfig parameter: the environment mapping
    arg,          \* GetConsolidatedConfig / ParseArg parameter: the inline string
    result,       \* GetConsolidatedConfig: the accumulator; Apply: the returned Config
    err,          \* the error returned (NoErr while none)
    base,         \* Config.Apply receiver
    applied,      \* Config.Apply parameter
    c             \* ParseArg: the Config it returns

vars == <<pc, jsonRawConf, env, arg, result, err, base, applied, c>>

-----------------------------------------------------------------------------
(* Bounds of the model *)

\* at most MaxKeys settings in total over document, environment and inline argument
MaxKeys == 3

\* at most MaxArgPairs comma-separated items in an inline argument given to ParseArg
MaxArgPairs == 2

-----------------------------------------------------------------------------
(* Field model *)

NoErr == "nil"

StringFields == {"Url", "CloudID", "CACert", "User", "Password"}

Fields == StringFields \cup {"FlushPeriod"}

\* null.StringFrom(s)
StringFrom(s) == [String |-> s, Valid |-> TRUE]

\* null.NewString(s, valid)
NewString(s, valid) == [String |-> s, Valid |-> valid]

\* types.NullDurationFrom(d)
NullDurationFrom(d) == [Duration |-> d, Valid |-> TRUE]

\* the Go zero value of types.NullDuration
ZeroNullDuration == [Duration |-> 0, Valid |-> FALSE]

\* time.Second, in milliseconds
defaultFlushPeriod == 1000

\* the Go zero value of Config (var c Config, Config{})
ZeroConfig ==
    [Url         |-> NewString("", FALSE),
     CloudID     |-> NewString("", FALSE),
     CACert      |-> NewString("", FALSE),
     User        |-> NewString("", FALSE),
     Password    |-> NewString("", FALSE),
     FlushPeriod |-> ZeroNullDuration]

\* the name of a field in the JSON document and in the inline argument
JsonName(f) ==
    CASE f = "Url"         -> "url"
      [] f = "CloudID"     -> "cloud-id"
      [] f = "CACert"      -> "caCertFile"
      [] f = "User"        -> "user"
      [] f = "Password"    -> "password"
      [] f = "FlushPeriod" -> "flushPeriod"

\* the name of a field's environment variable
EnvName(f) ==
    CASE f = "Url"         -> "K6_ELASTICSEARCH_URL"
      [] f = "CloudID"     -> "K6_ELASTICSEARCH_CLOUD_ID"
      [] f = "CACert"      -> "K6_ELASTICSEARCH_CA_CERT_FILE"
      [] f = "User"        -> "K6_ELASTICSEARCH_USER"
      [] f = "Password"    -> "K6_ELASTICSEARCH_PASSWORD"
      [] f = "FlushPeriod" -> "K6_ELASTICSEARCH_FLUSH_PERIOD"

-----------------------------------------------------------------------------
(* Duration text *)

\* the duration parse behind types.Duration on the texts of the model ("5s",
\* "2m" and texts that are no duration): [ok, d], d in milliseconds
ParseDuration(text) ==
    CASE text = "5s" -> [ok |-> TRUE, d |-> 5000]
      [] text = "2m" -> [ok |-> TRUE, d |-> 120000]
      [] OTHER       -> [ok |-> FALSE, d |-> 0]

\* types.NullDuration.UnmarshalText: empty text resets the receiver to the zero
\* value without error; a text that does not parse leaves the receiver as it was
UnmarshalText(d, data) ==
    IF data = ""
    THEN [d |-> ZeroNullDuration, err |-> NoErr]
    ELSE LET p == ParseDuration(data)
         IN  IF p.ok
             THEN [d |-> [Duration |-> p.d, Valid |-> TRUE], err |-> NoErr]
             ELSE [d |-> d, err |-> "duration"]

-----------------------------------------------------------------------------
(* NewConfig and Apply *)

\* mutation of NewConfig: the flush period is left at its zero value
NewConfigNoFlushPeriod ==
    [Url         |-> StringFrom("http://localhost:9200"),
     CloudID     |-> NewString("", FALSE),
     CACert      |-> NewString("", FALSE),
     User        |-> NewString("", FALSE),
     Password    |-> NewString("", FALSE),
     FlushPeriod |-> ZeroNullDuration]

NewConfig ==
    [Url         |-> StringFrom("http://localhost:9200"),
     CloudID     |-> NewString("", FALSE),
     CACert      |-> NewString("", FALSE),
     User        |-> NewString("", FALSE),
     Password    |-> NewString("", FALSE),
     FlushPeriod |-> NullDurationFrom(defaultFlushPeriod)]

\* mutation of Apply: the user is guarded by the validity of the password
ApplyUserByPassword(b, a) ==
    [Url         |-> IF a.Url.Valid         THEN a.Url         ELSE b.Url,
     CloudID     |-> IF a.CloudID.Valid     THEN a.CloudID     ELSE b.CloudID,
     CACert      |-> IF a.CACert.Valid      THEN a.CACert      ELSE b.CACert,
     User        |-> IF a.Password.Valid    THEN a.User        ELSE b.User,
     Password    |-> IF a.Password.Valid    THEN a.Password    ELSE b.Password,
     FlushPeriod |-> IF a.FlushPeriod.Valid THEN a.FlushPeriod ELSE b.FlushPeriod]

Apply(b, a) ==
    [Url         |-> IF a.Url.Valid         THEN a.Url         ELSE b.Url,
     CloudID     |-> IF a.CloudID.Valid     THEN a.CloudID     ELSE b.CloudID,
     CACert      |-> IF a.CACert.Valid      THEN a.CACert      ELSE b.CACert,
     User        |-> IF a.User.Valid        THEN a.User        ELSE b.User,
     Password    |-> IF a.Password.Valid    THEN a.Password    ELSE b.Password,
     FlushPeriod |-> IF a.FlushPeriod.Valid THEN a.FlushPeriod ELSE b.FlushPeriod]

-----------------------------------------------------------------------------
(* The inline argument: strvals.Parse and ParseArg *)

\* An inline argument is the sequence of its comma-separated items; <<>> is the
\* empty string.  An item is [key, sep, val]: "key=val" (sep "="), "key.sub=val"
\* (sep ".", a nested mapping under key) or a bare "key" without a value (sep "").
ArgKeys == {"url", "cloud-id", "caCertFile", "user", "password", "flushPeriod", "index", "URL"}

ArgRaws == {"", "arg", "5", "true", "null", "5s", "notaduration"}

ArgItems == [key : ArgKeys, sep : {"="}, val : ArgRaws]
              \cup [key : ArgKeys, sep : {".", ""}, val : {"arg"}]

\* the keys of an argument are pairwise distinct
DistinctKeys(a) == \A i, j \in 1..Len(a) : a[i].key = a[j].key => i = j

ArgsOver(items, n) == {a \in [1..n -> items] : DistinctKeys(a)}

\* strvals typedVal on the texts of the model: the typed value of the text right
\* of "=" (true and false are booleans, null is nil, a decimal integer without a
\* leading zero is an int64, everything else a string)
typedVal(val) ==
    CASE val = "true" -> [kind |-> "bool",   s |-> val]
      [] val = "null" -> [kind |-> "nil",    s |-> val]
      [] val = "5"    -> [kind |-> "int64",  s |-> val]
      [] OTHER        -> [kind |-> "string", s |-> val]

\* strvals.Parse: [params, err], params a mapping from the top-level keys to
\* typed values; an item without "=" fails the parse
RECURSIVE ParseItems(_, _, _)
ParseItems(a, i, params) ==
    IF i > Len(a)
    THEN [params |-> params, err |-> NoErr]
    ELSE LET it == a[i]
             v  == IF it.sep = "=" THEN typedVal(it.val) ELSE [kind |-> "map", s |-> it.val]
         IN  IF it.sep = ""
             THEN [params |-> params, err |-> "strvals"]
             ELSE ParseItems(a, i + 1,
                     [k \in DOMAIN params \cup {it.key} |->
                         IF k = it.key THEN v ELSE params[k]])

Parse(a) == ParseItems(a, 1, <<>>)

\* the Go upper-case spelling of a key, for the keys of the model
ToUpper(name) == IF name = "url" THEN "URL" ELSE name

\* mutation of StringAt: keys are matched ignoring case
StringAtFoldCase(params, name) ==
    LET k == IF name \in DOMAIN params THEN name ELSE ToUpper(name)
    IN  IF k \in DOMAIN params /\ params[k].kind = "string"
        THEN [ok |-> TRUE, v |-> params[k].s]
        ELSE [ok |-> FALSE, v |-> ""]

\* mutation of StringAt: a scalar that is not a string is formatted as text
StringAtSprint(params, name) ==
    IF name \in DOMAIN params /\ params[name].kind \in {"string", "int64", "bool"}
    THEN [ok |-> TRUE, v |-> params[name].s]
    ELSE [ok |-> FALSE, v |-> ""]

\* v, ok := params[name].(string)
StringAt(params, name) ==
    IF name \in DOMAIN params /\ params[name].kind = "string"
    THEN [ok |-> TRUE, v |-> params[name].s]
    ELSE [ok |-> FALSE, v |-> ""]

\* the null.String ParseArg stores for one of the five string keys
ArgString(params, name) ==
    LET r == StringAt(params, name)
    IN  IF r.ok THEN StringFrom(r.v) ELSE NewString("", FALSE)

\* ParseArg: [c, err]
ParseArg(a) ==
    LET p  == Parse(a)
        c5 == [Url         |-> ArgString(p.params, "url"),
               CloudID     |-> ArgString(p.params, "cloud-id"),
               CACert      |-> ArgString(p.params, "caCertFile"),
               User        |-> ArgString(p.params, "user"),
               Password    |-> ArgString(p.params, "password"),
               FlushPeriod |-> ZeroNullDuration]
        fp == StringAt(p.params, "flushPeriod")
        u  == UnmarshalText(c5.FlushPeriod, fp.v)
    IN  IF p.err # NoErr
        THEN [c |-> ZeroConfig, err |-> p.err]
        ELSE IF ~fp.ok
        THEN [c |-> c5, err |-> NoErr]
        ELSE IF u.err # NoErr
        THEN [c |-> c5, err |-> u.err]
        ELSE [c |-> [c5 EXCEPT !.FlushPeriod = u.d], err |-> NoErr]

-----------------------------------------------------------------------------
(* The JSON document: json.Unmarshal into a Config *)

\* A raw document is [kind, members]: kind "nil" is the nil json.RawMessage,
\* "empty" a non-nil message of length 0, "truncated" a text cut short ("{"),
\* "object" a JSON object with the given members.  A member value is [t, s, n]:
\* a JSON string s, the literal null, or the number n.
DocKeys == {"url", "cloud-id", "caCertFile", "user", "password", "flushPeriod", "index"}

JsonString(s) == [t |-> "string", s |-> s, n |-> 0]

JsonNull == [t |-> "null", s |-> "", n |-> 0]

JsonNumber(n) == [t |-> "number", s |-> "", n |-> n]

\* the member values of the model, by key
DocVals(k) ==
    IF k = "flushPeriod"
    THEN {JsonString("5s"), JsonString("notaduration"), JsonNull, JsonNumber(1500)}
    ELSE IF k = "index"
    THEN {JsonString("doc")}
    ELSE {JsonString("doc"), JsonNull, JsonNumber(7)}

NilDoc == [kind |-> "nil", members |-> <<>>]

EmptyDoc == [kind |-> "empty", members |-> <<>>]

TruncatedDoc == [kind |-> "truncated", members |-> <<>>]

ObjectDoc(m) == [kind |-> "object", members |-> m]

\* null.String.UnmarshalJSON on the member named name, if there is one:
\* a string makes the field valid, null leaves it invalid, a number is an error
JsonStringField(m, name) ==
    IF name \notin DOMAIN m \/ m[name].t = "null"
    THEN [v |-> NewString("", FALSE), err |-> NoErr]
    ELSE IF m[name].t = "string"
    THEN [v |-> StringFrom(m[name].s), err |-> NoErr]
    ELSE [v |-> NewString("", FALSE), err |-> "json"]

\* types.NullDuration.UnmarshalJSON on the member named name, if there is one:
\* null leaves the field invalid, a number is a count of milliseconds, a string
\* is parsed as a duration
JsonDurationField(m, name) ==
    IF name \notin DOMAIN m \/ m[name].t = "null"
    THEN [v |-> ZeroNullDuration, err |-> NoErr]
    ELSE IF m[name].t = "number"
    THEN [v |-> NullDurationFrom(m[name].n), err |-> NoErr]
    ELSE IF ParseDuration(m[name].s).ok
    THEN [v |-> NullDurationFrom(ParseDuration(m[name].s).d), err |-> NoErr]
    ELSE [v |-> ZeroNullDuration, err |-> "json"]

\* json.Unmarshal(jsonRawConf, &jsonConf) with jsonConf := Config{}: [conf, err].
\* Members with other names are ignored.  On an error conf is not used by the caller.
Unmarshal(doc) ==
    IF doc.kind # "object"
    THEN [conf |-> ZeroConfig, err |-> "json"]
    ELSE LET m  == doc.members
             fs == [f \in StringFields |-> JsonStringField(m, JsonName(f))]
             fp == JsonDurationField(m, "flushPeriod")
         IN  IF fp.err # NoErr \/ \E f \in StringFields : fs[f].err # NoErr
             THEN [conf |-> ZeroConfig, err |-> "json"]
             ELSE [conf |-> [Url         |-> fs["Url"].v,
                             CloudID     |-> fs["CloudID"].v,
                             CACert      |-> fs["CACert"].v,
                             User        |-> fs["User"].v,
                             Password    |-> fs["Password"].v,
                             FlushPeriod |-> fp.v],
                   err |-> NoErr]

-----------------------------------------------------------------------------
(* GetConsolidatedConfig, layer by layer: each layer maps the accumulator to *)
(* [result, err]; a layer that fails ends the call                           *)

\* mutation of JsonLayer: the nil check is missing
JsonLayerNoNilCheck(res, doc) ==
    LET u == Unmarshal(doc)
    IN  IF u.err # NoErr
        THEN [result |-> res, err |-> u.err]
        ELSE [result |-> Apply(res, u.conf), err |-> NoErr]

\* if jsonRawConf != nil { ... result = result.Apply(jsonConf) }
JsonLayer(res, doc) ==
    IF doc.kind = "nil"
    THEN [result |-> res, err |-> NoErr]
    ELSE LET u == Unmarshal(doc)
         IN  IF u.err # NoErr
             THEN [result |-> res, err |-> u.err]
             ELSE [result |-> Apply(res, u.conf), err |-> NoErr]

\* mutation of EnvString: a variable holding the empty string counts as undefined
EnvStringNonEmpty(old, e, name) ==
    IF name \in DOMAIN e /\ e[name] # "" THEN StringFrom(e[name]) ELSE old

\* the null.String the environment layer leaves in a string field
EnvString(old, e, name) == IF name \in DOMAIN e THEN StringFrom(e[name]) ELSE old

\* the five string variables, written into the accumulator
EnvStrings(res, e) ==
    [Url         |-> EnvString(res.Url, e, "K6_ELASTICSEARCH_URL"),
     CloudID     |-> EnvString(res.CloudID, e, "K6_ELASTICSEARCH_CLOUD_ID"),
     CACert      |-> EnvString(res.CACert, e, "K6_ELASTICSEARCH_CA_CERT_FILE"),
     User        |-> EnvString(res.User, e, "K6_ELASTICSEARCH_USER"),
     Password    |-> EnvString(res.Password, e, "K6_ELASTICSEARCH_PASSWORD"),
     FlushPeriod |-> res.FlushPeriod]

\* mutation of EnvLayer: the string variables are written before the flush
\* period is parsed
EnvLayerStringsFirst(res, e) ==
    LET r5 == EnvStrings(res, e)
        u  == UnmarshalText(r5.FlushPeriod, e["K6_ELASTICSEARCH_FLUSH_PERIOD"])
    IN  IF "K6_ELASTICSEARCH_FLUSH_PERIOD" \notin DOMAIN e
        THEN [result |-> r5, err |-> NoErr]
        ELSE IF u.err # NoErr
        THEN [result |-> r5, err |-> u.err]
        ELSE [result |-> [r5 EXCEPT !.FlushPeriod = u.d], err |-> NoErr]

\* the environment layer: the flush period is unmarshalled into the accumulator
\* first, then the five string variables are written into it
EnvLayer(res, e) ==
    LET u == UnmarshalText(res.FlushPeriod, e["K6_ELASTICSEARCH_FLUSH_PERIOD"])
    IN  IF "K6_ELASTICSEARCH_FLUSH_PERIOD" \notin DOMAIN e
        THEN [result |-> EnvStrings(res, e), err |-> NoErr]
        ELSE IF u.err # NoErr
        THEN [result |-> res, err |-> u.err]
        ELSE [result |-> EnvStrings([res EXCEPT !.FlushPeriod = u.d], e), err |-> NoErr]

\* if arg != "" { argConf, err := ParseArg(arg) ... result = result.Apply(argConf) }
ArgLayer(res, a) ==
    IF a = <<>>
    THEN [result |-> res, err |-> NoErr]
    ELSE LET p == ParseArg(a)
         IN  IF p.err # NoErr
             THEN [result |-> res, err |-> p.err]
             ELSE [result |-> Apply(res, p.c), err |-> NoErr]

-----------------------------------------------------------------------------
(* The inputs of the model *)

AllDocVals == UNION {DocVals(k) : k \in DocKeys}

\* the documents with n members; with none also the nil, the empty and the
\* truncated document
DocsOfSize(n) ==
    {ObjectDoc(m) : m \in UNION {{f \in [K -> AllDocVals] : \A k \in K : f[k] \in DocVals(k)} :
                                    K \in {S \in SUBSET DocKeys : Cardinality(S) = n}}}
      \cup (IF n = 0 THEN {NilDoc, EmptyDoc, TruncatedDoc} ELSE {})

EnvNames == {EnvName(f) : f \in Fields}

\* the values of the model for an environment variable
EnvVals(name) ==
    IF name = "K6_ELASTICSEARCH_FLUSH_PERIOD"
    THEN {"", "2m", "notaduration"}
    ELSE {"", "env"}

\* the environment mappings that define n of the six variables
EnvsOfSize(n) ==
    UNION {{e \in [K -> {"", "env", "2m", "notaduration"}] : \A k \in K : e[k] \in EnvVals(k)} :
              K \in {S \in SUBSET EnvNames : Cardinality(S) = n}}

\* the items of the inline arguments given to GetConsolidatedConfig
MainArgItems ==
    {it \in ArgItems :
        /\ it.key # "URL"
        /\ it.sep = "=" =>
              it.val \in (IF it.key = "flushPeriod" THEN {"", "5", "5s", "notaduration"}
                          ELSE IF it.key = "index" THEN {"arg"}
                          ELSE {"", "arg"})
        /\ it.sep = "." => it.key = "user"
        /\ it.sep = "" => it.key = "index"}

DocsBySize == [n \in 0..MaxKeys |-> DocsOfSize(n)]

EnvsBySize == [n \in 0..MaxKeys |-> EnvsOfSize(n)]

ArgsBySize == [n \in 0..MaxKeys |-> ArgsOver(MainArgItems, n)]

\* the Configs Apply is given as receiver and as parameter
BaseConfigs ==
    [Url : {NewString("", FALSE), StringFrom("base")},
     CloudID : {NewString("", FALSE), StringFrom("base")},
     CACert : {NewString("", FALSE), StringFrom("base")},
     User : {NewString("", FALSE), StringFrom("base")},
     Password : {NewString("", FALSE), StringFrom("base")},
     FlushPeriod : {ZeroNullDuration, NullDurationFrom(defaultFlushPeriod)}]

AppliedConfigs ==
    [Url : {NewString("", FALSE), StringFrom(""), StringFrom("applied")},
     CloudID : {NewString("", FALSE), StringFrom(""), StringFrom("applied")},
     CACert : {NewString("", FALSE), StringFrom(""), StringFrom("applied")},
     User : {NewString("", FALSE), StringFrom(""), StringFrom("applied")},
     Password : {NewString("", FALSE), StringFrom(""), StringFrom("applied")},
     FlushPeriod : {ZeroNullDuration, NullDurationFrom(0), NullDurationFrom(5000)}]

-----------------------------------------------------------------------------
(* GetConsolidatedConfig(jsonRawConf, env, arg) *)

Init ==
    /\ pc = "start"
    /\ \E nd \in 0..MaxKeys : \E ne \in 0..(MaxKeys - nd) : \E na \in 0..(MaxKeys - nd - ne) :
          /\ jsonRawConf \in DocsBySize[nd]
          /\ env \in EnvsBySize[ne]
          /\ arg \in ArgsBySize[na]
    /\ result = ZeroConfig
    /\ err = NoErr
    /\ base = ZeroConfig
    /\ applied = ZeroConfig
    /\ c = ZeroConfig

\* result := NewConfig()
Start ==
    /\ pc = "start"
    /\ result' = NewConfig
    /\ pc' = "json"
    /\ UNCHANGED <<jsonRawConf, env, arg, err, base, applied, c>>

\* the document layer
Json ==
    /\ pc = "json"
    /\ LET r == JsonLayer(result, jsonRawConf)
       IN  /\ result' = r.result
           /\ err' = r.err
           /\ pc' = IF r.err = NoErr THEN "env" ELSE "done"
    /\ UNCHANGED <<jsonRawConf, env, arg, base, applied, c>>

\* the environment layer
Env ==
    /\ pc = "env"
    /\ LET r == EnvLayer(result, env)
       IN  /\ result' = r.result
           /\ err' = r.err
           /\ pc' = IF r.err = NoErr THEN "arg" ELSE "done"
    /\ UNCHANGED <<jsonRawConf, env, arg, base, applied, c>>

\* the inline-argument layer and the final return
Arg ==
    /\ pc = "arg"
    /\ LET r == ArgLayer(result, arg)
       IN  /\ result' = r.result
           /\ err' = r.err
           /\ pc' = "done"
    /\ UNCHANGED <<jsonRawConf, env, arg, base, applied, c>>

Next == Start \/ Json \/ Env \/ Arg

Spec == Init /\ [][Next]_vars

-----------------------------------------------------------------------------
(* Config.Apply on its own *)

InitApply ==
    /\ pc = "Apply"
    /\ base \in BaseConfigs
    /\ applied \in AppliedConfigs
    /\ result = ZeroConfig
    /\ jsonRawConf = NilDoc
    /\ env = <<>>
    /\ arg = <<>>
    /\ err = NoErr
    /\ c = ZeroConfig

\* result = base.Apply(applied)
ApplyStep ==
    /\ pc = "Apply"
    /\ result' = Apply(base, applied)
    /\ pc' = "done"
    /\ UNCHANGED <<jsonRawConf, env, arg, err, base, applied, c>>

NextApply == ApplyStep

SpecApply == InitApply /\ [][NextApply]_vars

-----------------------------------------------------------------------------
(* ParseArg on its own *)

InitParseArg ==
    /\ pc = "ParseArg"
    /\ arg \in UNION {ArgsOver(ArgItems, n) : n \in 0..MaxArgPairs}
    /\ c = ZeroConfig
    /\ err = NoErr
    /\ result = ZeroConfig
    /\ jsonRawConf = NilDoc
    /\ env = <<>>
    /\ base = ZeroConfig
    /\ applied = ZeroConfig

\* c, err = ParseArg(arg)
ParseArgStep ==
    /\ pc = "ParseArg"
    /\ LET r == ParseArg(arg)
       IN  /\ c' = r.c
           /\ err' = r.err
    /\ pc' = "done"
    /\ UNCHANGED <<jsonRawConf, env, arg, result, base, applied>>

NextParseArg == ParseArgStep

SpecParseArg == InitParseArg /\ [][NextParseArg]_vars

-----------------------------------------------------------------------------
(* What each layer sets, read off the inputs *)

\* the defaults, written out
Defaults ==
    [Url         |-> [String |-> "http://localhost:9200", Valid |-> TRUE],
     CloudID     |-> [String |-> "", Valid |-> FALSE],
     CACert      |-> [String |-> "", Valid |-> FALSE],
     User        |-> [String |-> "", Valid |-> FALSE],
     Password    |-> [String |-> "", Valid |-> FALSE],
     FlushPeriod |-> [Duration |-> 1000, Valid |-> TRUE]]

\* the field value a string or a duration text stands for
FieldFromText(f, text) ==
    IF f = "FlushPeriod"
    THEN [Duration |-> ParseDuration(text).d, Valid |-> TRUE]
    ELSE [String |-> text, Valid |-> TRUE]

\* the document sets field f: it has a member of that name that is not null
DocSets(f) ==
    /\ jsonRawConf.kind = "object"
    /\ JsonName(f) \in DOMAIN jsonRawConf.members
    /\ jsonRawConf.members[JsonName(f)].t # "null"

DocValue(f) ==
    LET v == jsonRawConf.members[JsonName(f)]
    IN  IF v.t = "number" THEN [Duration |-> v.n, Valid |-> TRUE] ELSE FieldFromText(f, v.s)

\* the environment sets field f: its variable is defined (for the flush period:
\* defined with a text to parse)
EnvSets(f) ==
    /\ EnvName(f) \in DOMAIN env
    /\ f = "FlushPeriod" => env[EnvName(f)] # ""

EnvValue(f) == FieldFromText(f, env[EnvName(f)])

\* the inline argument sets field f: it has an item key=text whose value is a
\* string (for the flush period: a text to parse)
ArgSetters(f) ==
    {i \in 1..Len(arg) :
        /\ arg[i].key = JsonName(f)
        /\ arg[i].sep = "="
        /\ arg[i].val \notin {"5", "true", "null"}
        /\ f = "FlushPeriod" => arg[i].val # ""}

ArgSets(f) == ArgSetters(f) # {}

ArgValue(f) == FieldFromText(f, arg[CHOOSE i \in ArgSetters(f) : TRUE].val)

\* the value of the highest-precedence layer that sets f
Expected(f) ==
    IF ArgSets(f) THEN ArgValue(f)
    ELSE IF EnvSets(f) THEN EnvValue(f)
    ELSE IF DocSets(f) THEN DocValue(f)
    ELSE Defaults[f]

\* C1: when GetConsolidatedConfig returns no error, every field holds the value
\* of the highest-precedence layer that set it (defaults < document <
\* environment < inline argument), or its default when no layer set it.
C1_Precedence ==
    (pc = "done" /\ err = NoErr) => \A f \in Fields : result[f] = Expected(f)

-----------------------------------------------------------------------------
\* C2: Apply decides each field on its own: the applied field where it is
\* valid, else the base field; applying an all-absent Config returns base.
C2_ApplyFieldwise ==
    pc = "done" =>
        /\ \A f \in Fields : result[f] = IF applied[f].Valid THEN applied[f] ELSE base[f]
        /\ (\A f \in Fields : ~applied[f].Valid) => result = base

C2_Witness ==
    /\ pc = "done"
    /\ applied.Url.Valid /\ base.Url.Valid /\ result.Url = applied.Url
    /\ ~applied.User.Valid /\ base.User.Valid /\ applied.Password.Valid

-----------------------------------------------------------------------------
\* C3: a layer that fails returns the error with the accumulator as it stood
\* before that layer started, and the call ends there: a malformed document
\* returns the defaults; an unparsable flush period in the environment or in
\* the inline argument changes no field and no later layer runs.
C3_ErrorKeepsAccumulator ==
    [][/\ err' # NoErr => (result' = result /\ pc' = "done")
       /\ (pc = "json" /\ err' # NoErr) => result' = Defaults
       /\ pc # "done"]_vars

C3_Witness ==
    /\ pc = "done"
    /\ err = "duration"
    /\ jsonRawConf.kind = "object"
    /\ result.User.Valid
    /\ "K6_ELASTICSEARCH_FLUSH_PERIOD" \in DOMAIN env
    /\ "K6_ELASTICSEARCH_URL" \in DOMAIN env
    /\ result.Url = Defaults.Url

-----------------------------------------------------------------------------
\* C4: a field that is valid in the accumulator stays valid through every
\* later layer and in the returned Config.
C4_ValidStaysValid ==
    [][\A f \in Fields : result[f].Valid => result'[f].Valid]_vars

-----------------------------------------------------------------------------
\* C5 as stated: a document that is absent or empty, and an empty inline
\* argument, are skipped: no error and the accumulator unchanged.
C5_AbsentOrEmptySkipped ==
    [][/\ (pc = "json" /\ jsonRawConf.kind \in {"nil", "empty"}) =>
              (err' = NoErr /\ result' = result /\ pc' = "env")
       /\ (pc = "arg" /\ arg = <<>>) => (err' = NoErr /\ result' = result)]_vars

\* C5 amended: a nil document and an empty inline argument are skipped (no
\* error, accumulator unchanged); a non-nil document of length 0 is decoded
\* and fails, the accumulator still unchanged.
C5_NilSkippedEmptyFails ==
    [][/\ (pc = "json" /\ jsonRawConf.kind = "nil") =>
              (err' = NoErr /\ result' = result /\ pc' = "env")
       /\ (pc = "json" /\ jsonRawConf.kind = "empty") =>
              (err' # NoErr /\ result' = result /\ pc' = "done")
       /\ (pc = "arg" /\ arg = <<>>) => (err' = NoErr /\ result' = result)]_vars

C5_Witness ==
    /\ pc = "done"
    /\ err = NoErr
    /\ jsonRawConf.kind = "nil"
    /\ arg = <<>>
    /\ result.User.Valid

-----------------------------------------------------------------------------
\* C6: NewConfig returns url "http://localhost:9200" and flushPeriod 1 s, both
\* present, the other four fields absent, and no error.
C6_NewConfigDefaults ==
    pc = "json" => (result = Defaults /\ err = NoErr)

C6_Witness == pc = "json" /\ result.Url.Valid /\ result.FlushPeriod.Duration = 1000

-----------------------------------------------------------------------------
-----------------------------------------------------------------------------
(* ParseArg *)

RecognizedKeys == {"url", "cloud-id", "caCertFile", "user", "password", "flushPeriod"}

\* every item of the argument has a value: the grammar accepts it
Grammatical(a) == \A i \in 1..Len(a) : a[i].sep # ""

IsRecognized(it) == it.key \in RecognizedKeys

\* the parser returns a string for the item
IsStringItem(it) == it.sep = "=" /\ it.val \notin {"5", "true", "null"}

KeepsItem(it) == ~IsRecognized(it) \/ IsStringItem(it)

\* C8: in a grammatical argument a key that is not one of the six recognized
\* keys causes no error and changes no field: ParseArg returns what it returns
\* for the argument without those items.
C8_UnrecognizedIgnored ==
    (pc = "done" /\ Grammatical(arg)) =>
        LET r == ParseArg(SelectSeq(arg, IsRecognized))
        IN  /\ c = r.c
            /\ err = r.err
            /\ (\A i \in 1..Len(arg) : ~IsRecognized(arg[i])) => (c = ZeroConfig /\ err = NoErr)

C8_Witness ==
    /\ pc = "done"
    /\ \E i, j \in 1..Len(arg) :
          /\ arg[i] = [key |-> "URL", sep |-> "=", val |-> "arg"]
          /\ arg[j].key = "user"
    /\ c.User.Valid
    /\ ~c.Url.Valid

\* C10: a recognized key whose value the parser returns as a non-string is
\* treated like a missing key: its field stays absent and it causes no error;
\* a non-string flushPeriod neither sets the flush period nor fails.
C10_NonStringIgnored ==
    (pc = "done" /\ Grammatical(arg)) =>
        LET r == ParseArg(SelectSeq(arg, KeepsItem))
        IN  /\ c = r.c
            /\ err = r.err
            /\ \A i \in 1..Len(arg) : \A f \in Fields :
                  (arg[i].key = JsonName(f) /\ ~IsStringItem(arg[i])) =>
                      (c[f] = ZeroConfig[f] /\ (f = "FlushPeriod" => err = NoErr))

C10_Witness ==
    /\ pc = "done"
    /\ err = NoErr
    /\ \E i, j \in 1..Len(arg) :
          /\ arg[i] = [key |-> "flushPeriod", sep |-> "=", val |-> "5"]
          /\ arg[j].key = "url"
    /\ c.Url.Valid
    /\ ~c.FlushPeriod.Valid

-----------------------------------------------------------------------------
(* The fold of the four layers *)

\* the partial Config parsed from the variables defined in the mapping
EnvironmentConfig(e) ==
    LET u  == UnmarshalText(ZeroNullDuration, e["K6_ELASTICSEARCH_FLUSH_PERIOD"])
        c5 == EnvStrings(ZeroConfig, e)
    IN  IF "K6_ELASTICSEARCH_FLUSH_PERIOD" \notin DOMAIN e
        THEN [c |-> c5, err |-> NoErr]
        ELSE IF u.err # NoErr
        THEN [c |-> ZeroConfig, err |-> u.err]
        ELSE [c |-> [c5 EXCEPT !.FlushPeriod = u.d], err |-> NoErr]

\* Apply(Apply(Apply(NewConfig(), documentConfig), environmentConfig), inlineConfig),
\* an absent document and an empty argument giving the all-absent Config
FoldConfig(doc, e, a) ==
    LET d  == IF doc.kind = "nil" THEN [conf |-> ZeroConfig, err |-> NoErr] ELSE Unmarshal(doc)
        ev == EnvironmentConfig(e)
        p  == IF a = <<>> THEN [c |-> ZeroConfig, err |-> NoErr] ELSE ParseArg(a)
    IN  IF d.err # NoErr THEN [result |-> NewConfig, err |-> d.err]
        ELSE IF ev.err # NoErr THEN [result |-> Apply(NewConfig, d.conf), err |-> ev.err]
        ELSE IF p.err # NoErr
        THEN [result |-> Apply(Apply(NewConfig, d.conf), ev.c), err |-> p.err]
        ELSE [result |-> Apply(Apply(Apply(NewConfig, d.conf), ev.c), p.c), err |-> NoErr]

\* C9: GetConsolidatedConfig fails on the inputs the fold fails on, and where
\* neither fails its result is the fold's.
C9_EqualsFold ==
    pc = "done" =>
        LET fold == FoldConfig(jsonRawConf, env, arg)
        IN  /\ (err = NoErr) <=> (fold.err = NoErr)
            /\ (err = NoErr /\ fold.err = NoErr) => result = fold.result

====
